---- MODULE Spec2Model ----
(***************************************************************************)
(* A model of autotidal.py: the text normaliser, the tiered track resolver *)
(* find_best_track_match, the unresolved-track ledger and the playlist     *)
(* reconciliation loop create_tidal_playlist driven by main.               *)
(*                                                                         *)
(* Text is a sequence of one-character strings.  The destination catalog,  *)
(* the user at the prompt and the authentication flow are the environment: *)
(* every call to them is one action whose outcome is chosen with \E.       *)
(***************************************************************************)
EXTENDS Integers, Sequences, FiniteSets, TLC

\* ------------------------------------------------------------------ bounds
\* Longest candidate list a search or an album listing returns in full
\* enumeration (longer lists are the padded ones of LongResults).
MaxResults == 2
\* Most albums an album search returns.
MaxAlbums == 4
\* Longest candidate list a search returns during a reconciliation run.
MaxRunResults == 1
\* Rows of the source table reconciled in one run, over all playlists.
MaxRows == 2

\* ------------------------------------------------------- program constants
\* search_results['tracks'][:5]
TopTracks == 5
\* album_results['albums'][:3]
TopAlbums == 3
\* max_retries = 1
max_retries == 1
\* threshold: float = 0.7, kept as the fraction ThresholdNum / ThresholdDen
ThresholdNum == 7
ThresholdDen == 10
\* version = 2, the first suffix get_unique_playlist_name tries
FirstVersion == 2

\* ------------------------------------------------------------------- text
UpperCase == <<"A","B","C","D","E","F","G","H","I","J","K","L","M",
               "N","O","P","Q","R","S","T","U","V","W","X","Y","Z">>
LowerCase == <<"a","b","c","d","e","f","g","h","i","j","k","l","m",
               "n","o","p","q","r","s","t","u","v","w","x","y","z">>
Digits == {"0","1","2","3","4","5","6","7","8","9"}
\* Precomposed accented letters, each a single character of the text.
AccentedLower == {"e_acute", "c_caron"}
AccentedUpper == {"E_acute", "C_caron"}

Min(a, b) == IF a <= b THEN a ELSE b
Max(a, b) == IF a >= b THEN a ELSE b

IsSpace(c) == c = " "

\* \w of a Python 3 str pattern: letters (accented ones too), digits, "_".
IsWordChar(c) ==
    \/ \E i \in 1..26 : c = UpperCase[i] \/ c = LowerCase[i]
    \/ c \in Digits
    \/ c \in AccentedLower \cup AccentedUpper
    \/ c = "_"

\* unicodedata.normalize('NFD', .) followed by dropping category Mn: a
\* precomposed letter becomes its base letter, anything else is unchanged.
StripMark(c) ==
    CASE c = "e_acute" -> "e"
      [] c = "E_acute" -> "E"
      [] c = "c_caron" -> "c"
      [] c = "C_caron" -> "C"
      [] OTHER -> c

\* str.lower() on one character.
LowerChar(c) ==
    IF \E i \in 1..26 : c = UpperCase[i]
    THEN LowerCase[CHOOSE i \in 1..26 : c = UpperCase[i]]
    ELSE CASE c = "E_acute" -> "e_acute"
           [] c = "C_caron" -> "c_caron"
           [] OTHER -> c

StripMarks(s) == [i \in 1..Len(s) |-> StripMark(s[i])]
Lower(s) == [i \in 1..Len(s) |-> LowerChar(s[i])]

RECURSIVE LStrip(_)
LStrip(s) == IF s # <<>> /\ IsSpace(Head(s)) THEN LStrip(Tail(s)) ELSE s

RECURSIVE RStrip(_)
RStrip(s) ==
    IF s # <<>> /\ IsSpace(s[Len(s)]) THEN RStrip(SubSeq(s, 1, Len(s) - 1)) ELSE s

\* str.strip()
Strip(s) == RStrip(LStrip(s))

\* s[i..] starts with w
StartsAt(s, i, w) ==
    /\ i + Len(w) - 1 <= Len(s)
    /\ \A k \in 1..Len(w) : s[i + k - 1] = w[k]

\* w in s
Contains(s, w) == \E i \in 1..(Len(s) + 1) : StartsAt(s, i, w)

\* re.sub(r'\([^)]*\)', '', s): from the leftmost "(" that has a ")" after
\* it, everything up to the first such ")" goes; the scan resumes behind it.
RECURSIVE StripParens(_)
StripParens(s) ==
    IF s = <<>> THEN <<>>
    ELSE IF Head(s) = "(" /\ \E j \in 2..Len(s) : s[j] = ")"
         THEN LET j == CHOOSE j \in 2..Len(s) :
                           /\ s[j] = ")"
                           /\ \A k \in 2..(j - 1) : s[k] # ")"
              IN  StripParens(SubSeq(s, j + 1, Len(s)))
         ELSE <<Head(s)>> \o StripParens(Tail(s))

\* \b just before position i of s (the pattern's next character is a letter)
BoundaryBefore(s, i) == i = 1 \/ ~IsWordChar(s[i - 1])
\* \b just before position i of s, after a matched word
BoundaryAfter(s, i) == i > Len(s) \/ ~IsWordChar(s[i])

FeatWords == << <<"f","e","a","t">>,
                <<"f","e","a","t","u","r","i","n","g">>,
                <<"f","t">> >>
RemixWords == << <<"r","e","m","i","x">>,
                 <<"r","e","m","a","s","t","e","r">>,
                 <<"r","e","m","a","s","t","e","r","e","d">> >>

\* Length of the match of \b(feat|featuring|ft)\.?\s at position i, 0 if none.
FeatMatchLen(s, i) ==
    IF ~BoundaryBefore(s, i) THEN 0
    ELSE LET hits == {k \in 1..Len(FeatWords) :
                         /\ StartsAt(s, i, FeatWords[k])
                         /\ LET j == i + Len(FeatWords[k])
                            IN  \/ j <= Len(s) /\ IsSpace(s[j])
                                \/ j + 1 <= Len(s) /\ s[j] = "." /\ IsSpace(s[j + 1])}
         IN  IF hits = {} THEN 0
             ELSE LET k == CHOOSE k \in hits : \A h \in hits : k <= h
                      j == i + Len(FeatWords[k])
                  IN  IF s[j] = "." THEN Len(FeatWords[k]) + 2
                      ELSE Len(FeatWords[k]) + 1

\* Length of the match of \b(remix|remaster|remastered)\b at i, 0 if none.
RemixMatchLen(s, i) ==
    IF ~BoundaryBefore(s, i) THEN 0
    ELSE LET hits == {k \in 1..Len(RemixWords) :
                         /\ StartsAt(s, i, RemixWords[k])
                         /\ BoundaryAfter(s, i + Len(RemixWords[k]))}
         IN  IF hits = {} THEN 0
             ELSE Len(RemixWords[CHOOSE k \in hits : \A h \in hits : k <= h])

\* re.sub of the two word patterns: the matches are found on the text as it
\* stands, left to right, without overlap.
RECURSIVE RemoveFeatFrom(_, _)
RemoveFeatFrom(s, i) ==
    IF i > Len(s) THEN <<>>
    ELSE LET n == FeatMatchLen(s, i)
         IN  IF n > 0 THEN RemoveFeatFrom(s, i + n)
             ELSE <<s[i]>> \o RemoveFeatFrom(s, i + 1)

RECURSIVE RemoveRemixFrom(_, _)
RemoveRemixFrom(s, i) ==
    IF i > Len(s) THEN <<>>
    ELSE LET n == RemixMatchLen(s, i)
         IN  IF n > 0 THEN RemoveRemixFrom(s, i + n)
             ELSE <<s[i]>> \o RemoveRemixFrom(s, i + 1)

\* re.sub(r'[^\w\s]', '', s)
RemovePunct(s) == SelectSeq(s, LAMBDA c : IsWordChar(c) \/ IsSpace(c))

\* str.split(): the maximal runs of non-space characters, in order.
RECURSIVE Words(_)
Words(s) ==
    LET t == LStrip(s)
    IN  IF t = <<>> THEN <<>>
        ELSE LET n == IF \E j \in 1..Len(t) : IsSpace(t[j])
                      THEN (CHOOSE j \in 1..Len(t) :
                                /\ IsSpace(t[j])
                                /\ \A k \in 1..(j - 1) : ~IsSpace(t[k])) - 1
                      ELSE Len(t)
             IN  <<SubSeq(t, 1, n)>> \o Words(SubSeq(t, n + 1, Len(t)))

RECURSIVE JoinWords(_)
JoinWords(ws) ==
    IF ws = <<>> THEN <<>>
    ELSE IF Len(ws) = 1 THEN ws[1]
    ELSE ws[1] \o <<" ">> \o JoinWords(Tail(ws))

\* re.sub(r'\s+', ' ', s).strip()
CollapseSpaces(s) == JoinWords(Words(s))

normalize_text(text) ==
    IF text = <<>> THEN <<>>
    ELSE CollapseSpaces(RemovePunct(
             RemoveRemixFrom(RemoveFeatFrom(StripParens(Lower(StripMarks(text))), 1), 1)))

clean_track_name(track_name) ==
    IF track_name = <<>> THEN <<>>
    ELSE Strip(StripMarks(StripParens(track_name)))

Separators == << <<",", " ">>,
                 <<" ", "&", " ">>,
                 <<" ", "a", "n", "d", " ">>,
                 <<" ", "f", "e", "a", "t", ".", " ">>,
                 <<" ", "f", "e", "a", "t", " ">>,
                 <<" ", "f", "e", "a", "t", "u", "r", "i", "n", "g", " ">>,
                 <<" ", "f", "t", ".", " ">>,
                 <<" ", "f", "t", " ">> >>

\* s.split(sep)[0]
SplitFirst(s, sep) ==
    IF Contains(s, sep)
    THEN LET i == CHOOSE i \in 1..Len(s) :
                      /\ StartsAt(s, i, sep)
                      /\ \A k \in 1..(i - 1) : ~StartsAt(s, k, sep)
         IN  SubSeq(s, 1, i - 1)
    ELSE s

get_primary_artist(artist_string) ==
    IF artist_string = <<>> THEN <<>>
    ELSE LET found == {k \in 1..Len(Separators) :
                          Contains(Lower(artist_string), Separators[k])}
         IN  IF found = {} THEN Strip(artist_string)
             ELSE Strip(SplitFirst(artist_string,
                     Separators[CHOOSE k \in found : \A h \in found : k <= h]))

WordSet(s) == {Words(normalize_text(s))[i] : i \in 1..Len(Words(normalize_text(s)))}

\* The comparison with the threshold made strict.
fuzzy_match_words_strict(text1, text2) ==
    LET words1 == WordSet(text1)
        words2 == WordSet(text2)
        common_words == words1 \cap words2
        max_words == Max(Cardinality(words1), Cardinality(words2))
    IN  IF words1 = {} \/ words2 = {} THEN FALSE
        ELSE ThresholdDen * Cardinality(common_words) > ThresholdNum * max_words

fuzzy_match_words(text1, text2) ==
    LET words1 == WordSet(text1)
        words2 == WordSet(text2)
        common_words == words1 \cap words2
        max_words == Max(Cardinality(words1), Cardinality(words2))
    IN  IF words1 = {} \/ words2 = {} THEN FALSE
        ELSE ThresholdDen * Cardinality(common_words) >= ThresholdNum * max_words

\* ------------------------------------------------------- the data universe
\* Source track titles: one that clean_track_name leaves alone, one it rewrites.
NameHiYo == <<"H","i"," ","Y","o">>
NameHiYoLive == <<"H","i"," ","Y","o"," ","(","L","i","v","e",")">>
TrackNames == {NameHiYo, NameHiYoLive}
\* Source artist strings: a single artist, and two artists joined by ", ".
ArtistAl == <<"A","l">>
ArtistAlBo == <<"A","l",",", " ","B","o">>
ArtistNames == {ArtistAl, ArtistAlBo}
\* Source album names: empty, and a name.
AlbumLP == <<"L","P">>
AlbumNames == {<<>>, AlbumLP}
\* The isrc column: "None" is the blank cell (pd.notna false), else a code.
SourceIsrcs == {"None", "I1"}

\* A source row as get_playlist_tracks builds it.
Tracks == [track_name : TrackNames, artist_names : ArtistNames,
           album_name : AlbumNames, isrc : SourceIsrcs]

\* Destination candidates.  isrc "NoAttr" is a candidate without the
\* attribute (hasattr false), "None" one whose attribute is None.
CandHiYo == <<"h","i"," ","y","o">>
CandZed == <<"Z","e","d">>
CandNames == {CandHiYo, NameHiYoLive, CandZed}
CandIsrcs == {"NoAttr", "None", "I1", "I2"}
Candidates == [name : CandNames, isrc : CandIsrcs]

\* Python's None where a candidate is expected.
NoTrack == [name |-> <<>>, isrc |-> "NoTrack"]

\* A candidate no tier accepts, used to fill a list beyond the top five.
Filler == [name |-> CandZed, isrc |-> "NoAttr"]

RECURSIVE SeqsUpTo(_, _)
SeqsUpTo(S, n) ==
    IF n = 0 THEN {<<>>}
    ELSE LET shorter == SeqsUpTo(S, n - 1)
         IN  shorter \cup {Append(s, x) : s \in {t \in shorter : Len(t) = n - 1}, x \in S}

\* Lists longer than the top five: five fillers, then one candidate.
LongResults == {[i \in 1..(TopTracks + 1) |-> IF i <= TopTracks THEN Filler ELSE c] :
                    c \in Candidates}

\* What one search for tracks, or one album.tracks(), can return.
ResultLists == SeqsUpTo(Candidates, MaxResults) \cup LongResults

\* Candidates of a reconciliation run: one matching by ISRC only, one by
\* name only, one not at all.
RunCandidates == {[name |-> CandZed, isrc |-> "I1"],
                  [name |-> CandHiYo, isrc |-> "NoAttr"],
                  Filler}

\* The outcome of one catalog call: it returns a list, or it raises.
Raised == [raised |-> TRUE, tracks |-> <<>>]
Returned(L) == [raised |-> FALSE, tracks |-> L]
CallOutcomes == {Returned(L) : L \in ResultLists} \cup {Raised}
RunOutcomes == {Returned(L) : L \in SeqsUpTo(RunCandidates, MaxRunResults)} \cup {Raised}

\* The outcome of the album search: the number of albums it returns, or
\* AlbumSearchRaised.
AlbumSearchRaised == 0 - 1
AlbumOutcomes == 0..MaxAlbums \cup {AlbumSearchRaised}

\* ---------------------------------------------------------------- resolver
\* L[:n]
Take(L, n) == SubSeq(L, 1, Min(n, Len(L)))

\* The first element of L that satisfies P, NoTrack if none does.
FirstWhere(L, P(_)) ==
    IF \E i \in 1..Len(L) : P(L[i])
    THEN L[CHOOSE i \in 1..Len(L) : P(L[i]) /\ \A k \in 1..(i - 1) : ~P(L[k])]
    ELSE NoTrack

\* hasattr(result_track, 'isrc') and result_track.isrc == track['isrc']
IsrcEqual(c, track) == c.isrc # "NoAttr" /\ c.isrc = track.isrc

\* result_track.name.lower().strip() == track['track_name'].lower().strip()
SameName(name1, name2) == Strip(Lower(name1)) = Strip(Lower(name2))

\* The text operators over the names of the universe, tabulated.  (f @@ <<>>
\* equals f; it makes TLC build the table once instead of on every lookup.)
FuzzyTable ==
    [p \in (CandNames \X {clean_track_name(n) : n \in TrackNames}) |->
        fuzzy_match_words(p[1], p[2])] @@ <<>>
ExactTable == [p \in (CandNames \X TrackNames) |-> SameName(p[1], p[2])] @@ <<>>
CleanTable == [n \in TrackNames |-> clean_track_name(n)] @@ <<>>
PrimaryTable == [a \in ArtistNames |-> get_primary_artist(a)] @@ <<>>

Fuzzy(c, cleaned) == FuzzyTable[<<c.name, cleaned>>]
NameEqual(c, track) == ExactTable[<<c.name, track.track_name>>]

\* Step 1 on the first search's tracks: first ISRC match of the top five.
Step1(results, track) == FirstWhere(Take(results, TopTracks), LAMBDA c : IsrcEqual(c, track))
\* Step 2 on the same tracks: first exact name match of the top five.
Step2(results, track) == FirstWhere(Take(results, TopTracks), LAMBDA c : NameEqual(c, track))
\* Steps 1 and 2 with the exact-name scan first.
Step12NameFirst(results, track) ==
    IF results = <<>> THEN NoTrack
    ELSE IF Step2(results, track) # NoTrack THEN Step2(results, track)
    ELSE Step1(results, track)

\* Steps 1 and 2 in the code's order.
Step12(results, track) ==
    IF results = <<>> THEN NoTrack
    ELSE IF Step1(results, track) # NoTrack THEN Step1(results, track)
    ELSE Step2(results, track)

\* The fuzzy scan of steps 3 and 4 over the top five.
FuzzyTop(results, cleaned) ==
    FirstWhere(Take(results, TopTracks), LAMBDA c : Fuzzy(c, cleaned))
\* The fuzzy scan of step 5 over every track of an album.
FuzzyAll(results, cleaned) == FirstWhere(results, LAMBDA c : Fuzzy(c, cleaned))

\* Where the resolver stands after a call: the next call it makes ("search3",
\* "search4", "album_search", "album_tracks" with `left` albums to go), or
\* its return ("found" with the track, "not_found"), or "raised".
At(p) == [pc |-> p, found |-> NoTrack, left |-> 0]
Found(c) == [pc |-> "found", found |-> c, left |-> 0]

\* search_track_in_album up to its search call.
Step5Entry(track) ==
    IF track.album_name = <<>> THEN At("not_found") ELSE At("album_search")

\* Step 4 up to its search call.
Step4Entry(track) ==
    IF PrimaryTable[track.artist_names] # track.artist_names
    THEN At("search4") ELSE Step5Entry(track)

\* Step 3's scan of search_results, then on to step 4.
Step3Scan(track, results) ==
    LET c == FuzzyTop(results, CleanTable[track.track_name])
    IN  IF c # NoTrack THEN Found(c) ELSE Step4Entry(track)

\* From the return of the first search to the next call or the return.
AfterSearch1(track, out) ==
    IF out.raised THEN At("raised")
    ELSE LET c == Step12(out.tracks, track)
         IN  IF c # NoTrack THEN Found(c)
             ELSE IF CleanTable[track.track_name] # track.track_name
                  THEN At("search3")
                  ELSE Step3Scan(track, out.tracks)

\* The cleaned-name search with a raise taken as an empty result.
AfterSearch3Swallows(track, out) ==
    IF out.raised THEN Step4Entry(track) ELSE Step3Scan(track, out.tracks)

\* From the return of the cleaned-name search.
AfterSearch3(track, out) ==
    IF out.raised THEN At("raised") ELSE Step3Scan(track, out.tracks)

\* From the return of the primary-artist search.
AfterSearch4(track, out) ==
    IF out.raised THEN At("raised")
    ELSE LET c == FuzzyTop(out.tracks, CleanTable[track.track_name])
         IN  IF c # NoTrack THEN Found(c) ELSE Step5Entry(track)

\* The album search without the [:3] slice.
AfterAlbumSearchAll(track, n) ==
    IF n = AlbumSearchRaised \/ n = 0 THEN At("not_found")
    ELSE [pc |-> "album_tracks", found |-> NoTrack, left |-> n]

\* From the return of the album search: n albums came back, or it raised,
\* which the outer bare except swallows.
AfterAlbumSearch(track, n) ==
    IF n = AlbumSearchRaised THEN At("not_found")
    ELSE IF Min(n, TopAlbums) = 0 THEN At("not_found")
    ELSE [pc |-> "album_tracks", found |-> NoTrack, left |-> Min(n, TopAlbums)]

\* A raise of album.tracks() ending the whole album scan.
AfterAlbumTracksAbandons(track, out, left) ==
    IF out.raised THEN At("not_found")
    ELSE LET c == FuzzyAll(out.tracks, CleanTable[track.track_name])
         IN  IF c # NoTrack THEN Found(c)
             ELSE IF left - 1 = 0 THEN At("not_found")
             ELSE [pc |-> "album_tracks", found |-> NoTrack, left |-> left - 1]

\* From the return of one album.tracks(): a raise goes on to the next album.
AfterAlbumTracks(track, out, left) ==
    LET c == IF out.raised THEN NoTrack
             ELSE FuzzyAll(out.tracks, CleanTable[track.track_name])
    IN  IF c # NoTrack THEN Found(c)
        ELSE IF left - 1 = 0 THEN At("not_found")
        ELSE [pc |-> "album_tracks", found |-> NoTrack, left |-> left - 1]

\* ------------------------------------------------------------ playlist names
DigitChars == <<"0","1","2","3","4","5","6","7","8","9">>

\* str(n) for n >= 0
RECURSIVE Decimal(_)
Decimal(n) ==
    IF n < 10 THEN <<DigitChars[n + 1]>>
    ELSE Decimal(n \div 10) \o <<DigitChars[(n % 10) + 1]>>

\* f"{desired_name} version {version}"
Versioned(desired_name, version) ==
    desired_name \o <<" ","v","e","r","s","i","o","n"," ">> \o Decimal(version)

RECURSIVE NextVersion(_, _, _)
NextVersion(existing_names, desired_name, version) ==
    IF Versioned(desired_name, version) \notin existing_names
    THEN Versioned(desired_name, version)
    ELSE NextVersion(existing_names, desired_name, version + 1)

\* The version search started one too high.
get_unique_playlist_name_from_three(existing_names, desired_name) ==
    IF desired_name \notin existing_names THEN desired_name
    ELSE NextVersion(existing_names, desired_name, FirstVersion + 1)

get_unique_playlist_name(existing_names, desired_name) ==
    IF desired_name \notin existing_names THEN desired_name
    ELSE NextVersion(existing_names, desired_name, FirstVersion)

\* Source playlist names of the run.
PlaylistP == <<"P">>
PlaylistNames == {PlaylistP}
\* Python's None where a playlist handle is expected.
NoPlaylist == <<>>

\* ------------------------------------------------------------------ ledger
Reason(kind, err) == [kind |-> kind, err |-> err]
NoReason == Reason("", "")
IsrcBlank == Reason("isrc blank in input", "")
NotFoundOnTidal == Reason("track not found on Tidal", "")
SearchError(e) == Reason("search error", e)
ErrorAfterRetries(e) == Reason("error after retries", e)

\* A row of not_found.csv.  A data row stands for the columns of the track at
\* position idx of the pl-th playlist of the run, followed by the reason.
Header == [pl |-> 0, idx |-> 0, reason |-> Reason("header", "")]
Row(pl, idx, reason) == [pl |-> pl, idx |-> idx, reason |-> reason]

\* The header written by every call.
write_not_found_track_with_header(file_exists, rows_before, row) ==
    rows_before \o <<Header, row>>

\* The file opened for writing instead of appending.
write_not_found_track_truncating(file_exists, rows_before, row) == <<Header, row>>

\* write_not_found_track: the rows of the file after the call.
write_not_found_track(file_exists, rows_before, row) ==
    IF ~file_exists THEN rows_before \o <<Header, row>>
    ELSE Append(rows_before, row)

\* -------------------------------------------------------------- error values
\* str(exception) of the exceptions the loop can see.
ErrAuthExpired == "412 Client Error"
ErrServer == "500 Server Error"
ErrSearch == "search failed"
ErrPlaylists == "playlists failed"
ErrNoPlaylist == "Could not find playlist after re-authentication"
ErrNoneAdd == "'NoneType' object has no attribute 'add'"
ErrUnbound == "cannot access local variable 'add_error'"
\* The local add_error once its except clause has ended.
Unbound == "unbound"

\* "412" in error_str and "Client Error" in error_str
Is412(error_str) == error_str = ErrAuthExpired

\* track_id_key = f"{track['track_name']}|{track['artist_names']}"
Key(track) == track.track_name \o <<"|">> \o track.artist_names

\* ------------------------------------------------------------ loop decisions
\* The loop body without its ISRC check.
FirstChecksNoBlank(track, added) ==
    IF Key(track) \in added THEN "skip" ELSE "resolve"

\* The loop body without its added_tracks check.
FirstChecksNoSkip(track, added) ==
    IF track.isrc = "None" THEN "blank" ELSE "resolve"

\* Top of the loop body: "blank" logs the track, "skip" passes over it,
\* "resolve" sends it to find_best_track_match.
FirstChecks(track, added) ==
    IF track.isrc = "None" THEN "blank"
    ELSE IF Key(track) \in added THEN "skip"
    ELSE "resolve"

\* The loop condition off by one.
RetryLoopRunsOnceMore(retries) == retries <= max_retries + 1

\* while retry_count <= max_retries
RetryLoopRuns(retries) == retries <= max_retries

\* The key marked before the add is known to have succeeded.
AddedAfterAlways(added, key, out) == added \cup {key}

\* added_tracks after playlist.add returned or raised.
AddedAfter(added, key, out) == IF out = "ok" THEN added \cup {key} ELSE added

\* What playlist.add can do on the handle the loop holds.
AddOutcomes(handle) ==
    IF handle = NoPlaylist THEN {ErrNoneAdd} ELSE {"ok", ErrAuthExpired, ErrServer}

\* An add error other than the 412 dropped without a ledger row.
AfterAddSilent(out) ==
    IF out = "ok" THEN [pc |-> "loop", log |-> NoReason]
    ELSE IF Is412(out) THEN [pc |-> "prompt", log |-> NoReason]
    ELSE [pc |-> "loop", log |-> NoReason]

\* After playlist.add: where the loop goes and what it logs.
AfterAdd(out) ==
    IF out = "ok" THEN [pc |-> "loop", log |-> NoReason]
    ELSE IF Is412(out) THEN [pc |-> "prompt", log |-> NoReason]
    ELSE [pc |-> "loop", log |-> SearchError(out)]

\* The reason written once the retry loop has ended without success.  The
\* name add_error is unbound there, so str(add_error) raises and the
\* track-level handler logs that error.
AfterRetries(add_error) ==
    IF add_error = Unbound THEN SearchError(ErrUnbound)
    ELSE ErrorAfterRetries(add_error)

\* What the user can type at the prompt.
Answers == { <<"y">>, <<"Y","e","s"," ">>, <<"n">>, <<>> }
\* 'y' in input().strip().lower()
Grants(answer) == Contains(Lower(Strip(answer)), <<"y">>)

\* The exit on a decline caught by the track-level handler.
AfterInputCaught(answer) ==
    IF Grants(answer) THEN [pc |-> "reauth", log |-> NoReason]
    ELSE [pc |-> "loop", log |-> SearchError("0")]

\* After input(): on to the re-authentication, or sys.exit(0), which no
\* handler of the loop catches.
AfterInput(answer) ==
    IF Grants(answer) THEN [pc |-> "reauth", log |-> NoReason]
    ELSE [pc |-> "exit0", log |-> NoReason]

\* for pl in user_playlists: if pl.name == unique_playlist_name
FindPlaylist(listing, name) == IF name \in listing THEN name ELSE NoPlaylist

\* After the re-authentication calls.  out is "auth_failed" (sys.exit(1) in
\* authenticate_tidal), "playlists_raised", or "listed" with the handle the
\* lookup by name produced.
AfterReauth(out, handle, retries) ==
    IF out = "auth_failed" THEN [pc |-> "exit1", log |-> NoReason, retries |-> retries]
    ELSE IF out = "playlists_raised"
         THEN [pc |-> "loop", log |-> SearchError(ErrPlaylists), retries |-> retries]
    ELSE IF handle = NoPlaylist
         THEN [pc |-> "loop", log |-> SearchError(ErrNoPlaylist), retries |-> retries]
    ELSE IF RetryLoopRuns(retries + 1)
         THEN [pc |-> "add", log |-> NoReason, retries |-> retries + 1]
    ELSE [pc |-> "loop", log |-> AfterRetries(Unbound), retries |-> retries + 1]

\* ------------------------------------------------------------------- state
VARIABLES
    pc,                   \* where the program stands
    dest_names,           \* names of the playlists of the destination account
    begun,                \* playlists main has started
    rows,                 \* source rows consumed so far
    unique_playlist_name, \* create_tidal_playlist's local
    playlist,             \* the playlist handle, NoPlaylist for None
    track,                \* the row of the current iteration
    track_index,          \* its position in the playlist, from 1
    added_tracks,         \* the run-scoped set of composite keys
    found_track,          \* the resolver's result
    retry_count,
    albums_left,          \* albums search_track_in_album has yet to list
    not_found,            \* the list create_tidal_playlist returns
    ledger_exists,        \* os.path.exists("not_found.csv")
    ledger,               \* rows of not_found.csv
    last_call,            \* history: the latest external call and its outcome
    calls,                \* history: the retry loop's calls for the current track
    added_ok,             \* history: keys whose playlist.add returned, this playlist
    declined,             \* history: the user declined re-authentication
    lookups,              \* history: the resolver's calls (resolver runs)
    first_results         \* history: what the first search returned, kept until
                          \* the resolver's next call (resolver runs)

vars == <<pc, dest_names, begun, rows, unique_playlist_name, playlist, track,
          track_index, added_tracks, found_track, retry_count, albums_left,
          not_found, ledger_exists, ledger, last_call, calls, added_ok, declined,
          lookups, first_results>>

NoRow == [track_name |-> <<>>, artist_names |-> <<>>, album_name |-> <<>>, isrc |-> "None"]
NoOutcome == Returned(<<>>)
Call(op, out) == [op |-> op, out |-> out]
NoCall == Call("", "")
OutName(out) == IF out.raised THEN "raised" ELSE "ok"
AlbumOutName(n) == IF n = AlbumSearchRaised THEN "raised" ELSE "ok"

Init ==
    /\ pc = "main"
    /\ dest_names \in {{}, {PlaylistP}}
    /\ begun = 0
    /\ rows = 0
    /\ unique_playlist_name = NoPlaylist
    /\ playlist = NoPlaylist
    /\ track = NoRow
    /\ track_index = 0
    /\ added_tracks = {}
    /\ found_track = NoTrack
    /\ retry_count = 0
    /\ albums_left = 0
    /\ not_found = <<>>
    /\ ledger_exists \in BOOLEAN
    /\ ledger = IF ledger_exists THEN <<Header>> ELSE <<>>
    /\ last_call = NoCall
    /\ calls = <<>>
    /\ added_ok = {}
    /\ declined = FALSE
    /\ lookups = <<>>
    /\ first_results = NoOutcome

\* Appends the current iteration's track to the ledger and to not_found,
\* or leaves both alone when reason is NoReason.
Log(idx, reason) ==
    IF reason = NoReason
    THEN UNCHANGED <<ledger, ledger_exists, not_found>>
    ELSE /\ ledger' = write_not_found_track(ledger_exists, ledger, Row(begun, idx, reason))
         /\ ledger_exists' = TRUE
         /\ not_found' = Append(not_found, [idx |-> idx, reason |-> reason])

\* The locals of the resolver and of the retry loop.  None is read again
\* after the iteration that set it, so an iteration's end leaves them at
\* their initial values.
Locals(p, found, retries, left) ==
    /\ found_track' = IF p = "loop" THEN NoTrack ELSE found
    /\ retry_count' = IF p = "loop" THEN 0 ELSE retries
    /\ albums_left' = IF p = "loop" THEN 0 ELSE left

\* ------------------------------------------------------------------ actions
\* main's loop body up to the track loop: get_unique_playlist_name and
\* create_playlist.  A raise in user.playlists() reaches the handler at the
\* end of create_tidal_playlist, whose message reads the still unbound
\* unique_playlist_name: the run crashes.  A raise in create_playlist makes
\* create_tidal_playlist return its tracks unprocessed, without a ledger
\* row; display_not_found_songs then reads song['name'], a key the track
\* dicts lack, and the KeyError ends main (a selected playlist has a row).
BeginPlaylist ==
    /\ pc = "main"
    /\ rows < MaxRows
    /\ \E name \in PlaylistNames, out \in {"ok", "playlists_raised", "create_raised"} :
          /\ begun' = begun + 1
          /\ last_call' = Call("create", out)
          /\ IF out = "ok"
             THEN LET unique == get_unique_playlist_name(dest_names, name)
                  IN  /\ unique_playlist_name' = unique
                      /\ dest_names' = dest_names \cup {unique}
                      /\ playlist' = unique
                      /\ added_tracks' = {}
                      /\ added_ok' = {}
                      /\ track_index' = 0
                      /\ pc' = "loop"
                      /\ rows' = rows
             ELSE IF out = "create_raised"
             THEN /\ unique_playlist_name' = get_unique_playlist_name(dest_names, name)
                  /\ pc' = "crashed"
                  /\ UNCHANGED <<dest_names, playlist, added_tracks, added_ok,
                                 track_index, rows>>
             ELSE /\ pc' = "crashed"
                  /\ UNCHANGED <<unique_playlist_name, dest_names, playlist, added_tracks,
                                 added_ok, track_index, rows>>
    /\ not_found' = <<>>
    /\ track' = NoRow
    /\ calls' = <<>>
    /\ UNCHANGED <<found_track, retry_count, albums_left, ledger_exists, ledger,
                   declined, lookups, first_results>>

\* The next iteration of the track loop, up to the resolver's first search.
NextTrack ==
    /\ pc = "loop"
    /\ rows < MaxRows
    /\ \E t \in Tracks :
          /\ track' = t
          /\ track_index' = track_index + 1
          /\ rows' = rows + 1
          /\ calls' = <<>>
          /\ last_call' = NoCall
          /\ LET check == FirstChecks(t, added_tracks)
             IN  /\ pc' = IF check = "resolve" THEN "search1" ELSE "loop"
                 /\ Log(track_index + 1, IF check = "blank" THEN IsrcBlank ELSE NoReason)
    /\ UNCHANGED <<dest_names, begun, unique_playlist_name, playlist, added_tracks,
                   found_track, retry_count, albums_left, added_ok, declined,
                   lookups, first_results>>

\* The track loop ends: create_tidal_playlist returns not_found, main reports.
EndPlaylist ==
    /\ pc = "loop"
    /\ track_index >= 1
    /\ pc' = "main"
    /\ UNCHANGED <<dest_names, begun, rows, unique_playlist_name, playlist, track,
                   track_index, added_tracks, found_track, retry_count, albums_left,
                   not_found, ledger_exists, ledger, last_call, calls, added_ok,
                   declined, lookups, first_results>>

\* main has no playlist left.
Finish ==
    /\ pc = "main"
    /\ begun >= 1
    /\ pc' = "done"
    /\ UNCHANGED <<dest_names, begun, rows, unique_playlist_name, playlist, track,
                   track_index, added_tracks, found_track, retry_count, albums_left,
                   not_found, ledger_exists, ledger, last_call, calls, added_ok,
                   declined, lookups, first_results>>

\* Where the track loop stands once the resolver stands at r: a return with
\* a track enters the retry loop, a return of None and a raise are logged
\* and the loop goes on.
AfterResolver(r) ==
    IF r.pc = "found" THEN [pc |-> "add", log |-> NoReason]
    ELSE IF r.pc = "not_found" THEN [pc |-> "loop", log |-> NotFoundOnTidal]
    ELSE IF r.pc = "raised" THEN [pc |-> "loop", log |-> SearchError(ErrSearch)]
    ELSE [pc |-> r.pc, log |-> NoReason]

Resolving(r, call) ==
    /\ last_call' = call
    /\ pc' = AfterResolver(r).pc
    /\ Locals(AfterResolver(r).pc, r.found, 0, r.left)
    /\ Log(track_index, AfterResolver(r).log)
    /\ UNCHANGED <<dest_names, begun, rows, unique_playlist_name, playlist, track,
                   track_index, added_tracks, calls, added_ok, declined, lookups,
                   first_results>>

Search1 ==
    /\ pc = "search1"
    /\ \E out \in RunOutcomes :
          Resolving(AfterSearch1(track, out), Call("search", OutName(out)))

Search3 ==
    /\ pc = "search3"
    /\ \E out \in RunOutcomes :
          Resolving(AfterSearch3(track, out), Call("search", OutName(out)))

Search4 ==
    /\ pc = "search4"
    /\ \E out \in RunOutcomes :
          Resolving(AfterSearch4(track, out), Call("search", OutName(out)))

AlbumSearch ==
    /\ pc = "album_search"
    /\ \E n \in AlbumOutcomes :
          Resolving(AfterAlbumSearch(track, n), Call("album_search", AlbumOutName(n)))

AlbumTracks ==
    /\ pc = "album_tracks"
    /\ \E out \in RunOutcomes :
          Resolving(AfterAlbumTracks(track, out, albums_left),
                    Call("album_tracks", OutName(out)))

\* playlist.add([found_track.id]) and what follows it.
Add ==
    /\ pc = "add"
    /\ \E out \in AddOutcomes(playlist) :
          LET r == AfterAdd(out)
          IN  /\ last_call' = Call("add", out)
              /\ calls' = Append(calls, Call("add", out))
              /\ added_tracks' = AddedAfter(added_tracks, Key(track), out)
              /\ added_ok' = IF out = "ok" THEN added_ok \cup {Key(track)} ELSE added_ok
              /\ pc' = r.pc
              /\ Locals(r.pc, found_track, retry_count, 0)
              /\ Log(track_index, r.log)
    /\ UNCHANGED <<dest_names, begun, rows, unique_playlist_name, playlist, track,
                   track_index, declined, lookups, first_results>>

\* input() at the re-authentication prompt.
Prompt ==
    /\ pc = "prompt"
    /\ \E answer \in Answers :
          LET r == AfterInput(answer)
              said == IF Grants(answer) THEN "y" ELSE "n"
          IN  /\ last_call' = Call("input", said)
              /\ calls' = Append(calls, Call("input", said))
              /\ declined' = ~Grants(answer)
              /\ pc' = r.pc
              /\ Locals(r.pc, found_track, retry_count, 0)
              /\ Log(track_index, r.log)
    /\ UNCHANGED <<dest_names, begun, rows, unique_playlist_name, playlist, track,
                   track_index, added_tracks, added_ok, lookups, first_results>>

\* session.check_login(), authenticate_tidal() if needed, user.playlists()
\* and the lookup of the playlist by name.  The account listed may be the
\* one the playlist was created in, or one without it.
Reauth ==
    /\ pc = "reauth"
    /\ \/ \E out \in {"auth_failed", "playlists_raised"} :
             LET r == AfterReauth(out, playlist, retry_count)
             IN  /\ last_call' = Call("reauth", out)
                 /\ calls' = Append(calls, Call("reauth", out))
                 /\ pc' = r.pc
                 /\ Locals(r.pc, found_track, r.retries, 0)
                 /\ Log(track_index, r.log)
                 /\ UNCHANGED playlist
       \/ \E listing \in {dest_names, {}} :
             LET handle == FindPlaylist(listing, unique_playlist_name)
                 r == AfterReauth("listed", handle, retry_count)
                 out == IF handle = NoPlaylist THEN "missing" ELSE "found"
             IN  /\ last_call' = Call("reauth", out)
                 /\ calls' = Append(calls, Call("reauth", out))
                 /\ playlist' = handle
                 /\ pc' = r.pc
                 /\ Locals(r.pc, found_track, r.retries, 0)
                 /\ Log(track_index, r.log)
    /\ UNCHANGED <<dest_names, begun, rows, unique_playlist_name, track, track_index,
                   added_tracks, added_ok, declined, lookups, first_results>>

Next ==
    \/ BeginPlaylist
    \/ NextTrack
    \/ EndPlaylist
    \/ Finish
    \/ Search1
    \/ Search3
    \/ Search4
    \/ AlbumSearch
    \/ AlbumTracks
    \/ Add
    \/ Prompt
    \/ Reauth

Spec == Init /\ [][Next]_vars

\* ------------------------------------------------------------ resolver runs
\* find_best_track_match on its own: any row, any candidate lists.
InitResolve ==
    /\ pc = "search1"
    /\ track \in Tracks
    /\ dest_names = {}
    /\ begun = 0
    /\ rows = 0
    /\ unique_playlist_name = NoPlaylist
    /\ playlist = NoPlaylist
    /\ track_index = 0
    /\ added_tracks = {}
    /\ found_track = NoTrack
    /\ retry_count = 0
    /\ albums_left = 0
    /\ not_found = <<>>
    /\ ledger_exists = FALSE
    /\ ledger = <<>>
    /\ last_call = NoCall
    /\ calls = <<>>
    /\ added_ok = {}
    /\ declined = FALSE
    /\ lookups = <<>>
    /\ first_results = NoOutcome

\* One resolver call and the resolver's code up to its next call or return.
Lookup(r, call) ==
    /\ last_call' = call
    /\ lookups' = Append(lookups, call)
    /\ pc' = r.pc
    /\ found_track' = r.found
    /\ albums_left' = r.left
    /\ UNCHANGED <<dest_names, begun, rows, unique_playlist_name, playlist, track,
                   track_index, added_tracks, retry_count, not_found, ledger_exists,
                   ledger, calls, added_ok, declined>>

ResolveSearch1 ==
    /\ pc = "search1"
    /\ \E out \in CallOutcomes :
          /\ first_results' = out
          /\ Lookup(AfterSearch1(track, out), Call("search", OutName(out)))

ResolveSearch3 ==
    /\ pc = "search3"
    /\ \E out \in CallOutcomes :
          /\ Lookup(AfterSearch3(track, out), Call("search", OutName(out)))
          /\ first_results' = NoOutcome

ResolveSearch4 ==
    /\ pc = "search4"
    /\ \E out \in CallOutcomes :
          /\ Lookup(AfterSearch4(track, out), Call("search", OutName(out)))
          /\ first_results' = NoOutcome

ResolveAlbumSearch ==
    /\ pc = "album_search"
    /\ \E n \in AlbumOutcomes :
          /\ Lookup(AfterAlbumSearch(track, n), Call("album_search", AlbumOutName(n)))
          /\ first_results' = NoOutcome

ResolveAlbumTracks ==
    /\ pc = "album_tracks"
    /\ \E out \in CallOutcomes :
          /\ Lookup(AfterAlbumTracks(track, out, albums_left),
                    Call("album_tracks", OutName(out)))
          /\ first_results' = NoOutcome

NextResolve ==
    \/ ResolveSearch1
    \/ ResolveSearch3
    \/ ResolveSearch4
    \/ ResolveAlbumSearch
    \/ ResolveAlbumTracks

SpecResolve == InitResolve /\ [][NextResolve]_vars

\* ------------------------------------------------------------------ claims
\* The run goes on: the track loop, main's loop, or main's end.
Continues == pc \in {"loop", "main", "done"}
\* Data rows of the ledger for the current track.
RowsOfTrack ==
    {i \in 1..Len(ledger) : ledger[i].pl = begun /\ ledger[i].idx = track_index}
\* The ledger's last row is the current track's only row and carries reason.
LoggedOnceAs(reason) ==
    /\ ledger # <<>>
    /\ ledger[Len(ledger)] = Row(begun, track_index, reason)
    /\ Cardinality(RowsOfTrack) = 1
    /\ not_found # <<>>
    /\ not_found[Len(not_found)] = [idx |-> track_index, reason |-> reason]
\* Positions of the calls of one kind in a history.
CallsOf(history, op) == {i \in 1..Len(history) : history[i].op = op}

\* C1: once the user has declined re-authentication the run is over: the
\* declining step writes no ledger entry and ends in the exit, and no later
\* step changes anything (no ledger write, no search, no add, no next track
\* or playlist).
C1_DeclineEndsRun ==
    [][/\ (declined' /\ ~declined) =>
              /\ pc' = "exit0"
              /\ ledger' = ledger
              /\ not_found' = not_found
       /\ declined => UNCHANGED vars]_vars

\* C1 witness: the user declined after an add raised the 412 signature, with
\* source rows still unread.
C1_Witness ==
    /\ declined
    /\ pc = "exit0"
    /\ rows < MaxRows
    /\ Len(calls) >= 2
    /\ calls[Len(calls) - 1] = Call("add", ErrAuthExpired)
    /\ last_call = Call("input", "n")

\* C2: for one track playlist.add is called at most max_retries + 1 = 2
\* times, and an add that is not the track's first comes right after an add
\* that raised the 412 signature, a granted prompt and a re-authentication
\* that found the playlist.
C2_AtMostTwoAdds ==
    /\ Cardinality(CallsOf(calls, "add")) <= max_retries + 1
    /\ \A i \in CallsOf(calls, "add") :
          i > 1 => /\ i >= 4
                   /\ calls[i - 3] = Call("add", ErrAuthExpired)
                   /\ calls[i - 2] = Call("input", "y")
                   /\ calls[i - 1] = Call("reauth", "found")

\* C2 witness: a track whose add was called twice.
C2_Witness == Cardinality(CallsOf(calls, "add")) = 2

\* C3 as claimed: when the retried add fails with the 412 signature too, the
\* user is not prompted again for that track.
C3_NoSecondPrompt ==
    (Len(calls) >= 4 /\ calls[4] = Call("add", ErrAuthExpired)) =>
        /\ pc # "prompt"
        /\ Cardinality(CallsOf(calls, "input")) <= 1

\* C4 as claimed: an add that raises without the 412 signature is not
\* retried, no prompt follows, the track gets exactly one ledger entry with
\* the "error after retries" reason, and the run goes on.
C4_AddErrorReason ==
    (last_call.op = "add" /\ last_call.out \notin {"ok", ErrAuthExpired}) =>
        /\ Continues
        /\ LoggedOnceAs(ErrorAfterRetries(last_call.out))

\* C5 as claimed: a raise of any resolver search, the album search included,
\* gives the track exactly one "search error" ledger entry and the run goes on.
C5_AnySearchErrorLogged ==
    (last_call.out = "raised" /\ last_call.op \in {"search", "album_search"}) =>
        /\ Continues
        /\ LoggedOnceAs(SearchError(ErrSearch))

\* C5 amended: a raise of a track search (steps 1, 3, 4) gives the track
\* exactly one "search error" ledger entry; a raise of the album search is
\* swallowed by the resolver and the track gets exactly one "track not found
\* on Tidal" entry; either way the run goes on with the next track.
C5_SearchErrorsLogged ==
    /\ last_call = Call("search", "raised") =>
          /\ Continues
          /\ LoggedOnceAs(SearchError(ErrSearch))
    /\ last_call = Call("album_search", "raised") =>
          /\ Continues
          /\ LoggedOnceAs(NotFoundOnTidal)

\* C5 witness: a track search raised for the first track of a playlist, the
\* track is logged and the loop stands ready for the next track.
C5_Witness ==
    /\ last_call = Call("search", "raised")
    /\ pc = "loop"
    /\ rows < MaxRows
    /\ LoggedOnceAs(SearchError(ErrSearch))

\* C6: a track with a blank ISRC is logged once with reason "isrc blank in
\* input", no call is made for it (no search, no add) and the run goes on.
C6_BlankIsrcLogged ==
    (track # NoRow /\ track.isrc = "None") =>
        /\ Continues
        /\ last_call = NoCall
        /\ calls = <<>>
        /\ LoggedOnceAs(IsrcBlank)

\* C6 witness: a blank-ISRC track has been logged.
C6_Witness ==
    /\ track # NoRow
    /\ track.isrc = "None"
    /\ pc = "loop"
    /\ LoggedOnceAs(IsrcBlank)

\* C7 as claimed: a track whose key is in added_tracks when its iteration
\* begins ends the iteration at once, without a call and without a ledger
\* entry.
C7_KeyInSetSkipped ==
    [][(pc = "loop" /\ track_index' = track_index + 1 /\ Key(track') \in added_tracks) =>
           /\ pc' = "loop"
           /\ last_call' = NoCall
           /\ ledger' = ledger
           /\ not_found' = not_found]_vars

\* C7 amended: the same for a track whose ISRC is not blank (a blank ISRC is
\* checked first, and such a track is logged even when its key is in the set).
C7_KeyInSetSkippedUnlessBlank ==
    [][(/\ pc = "loop"
        /\ track_index' = track_index + 1
        /\ Key(track') \in added_tracks
        /\ track'.isrc # "None") =>
           /\ pc' = "loop"
           /\ last_call' = NoCall
           /\ calls' = <<>>
           /\ ledger' = ledger
           /\ not_found' = not_found
           /\ added_tracks' = added_tracks]_vars

\* C7 witness: a track with an ISRC whose iteration ended without any call:
\* its key was in the set.
C7_Witness ==
    /\ track # NoRow
    /\ track.isrc # "None"
    /\ pc = "loop"
    /\ track_index >= 2
    /\ last_call = NoCall
    /\ calls = <<>>
    /\ Key(track) \in added_tracks

\* C8: a key is in added_tracks only if playlist.add returned for a track
\* with that key earlier in the same playlist run, and the set is empty when
\* a playlist's loop starts.
C8_KeysOnlyAfterAdd ==
    /\ added_tracks \subseteq added_ok
    /\ (pc = "loop" /\ track_index = 0) => added_tracks = {}

\* C8 witness: an add has failed in a playlist run that holds an added key.
C8_Witness ==
    /\ added_tracks # {}
    /\ last_call = Call("add", ErrServer)
    /\ Key(track) \notin added_tracks

\* The positions of the top five of the first search that match by ISRC.
IsrcHits ==
    {i \in 1..Min(TopTracks, Len(first_results.tracks)) :
        IsrcEqual(first_results.tracks[i], track)}
FirstSearchReturned == Len(lookups) = 1 /\ ~first_results.raised

\* C9: when one of the top five results of the first search has the source
\* ISRC, the resolver returns the first of them, whatever the names.
C9_IsrcTierWins ==
    (FirstSearchReturned /\ IsrcHits # {}) =>
        /\ pc = "found"
        /\ found_track =
              first_results.tracks[CHOOSE i \in IsrcHits : \A k \in IsrcHits : i <= k]

\* C9 witness: the resolver returned an ISRC match that stands behind a
\* candidate with exactly the source's name and another ISRC.
C9_Witness ==
    /\ FirstSearchReturned
    /\ pc = "found"
    /\ \E i, j \in 1..Len(first_results.tracks) :
          /\ i < j
          /\ NameEqual(first_results.tracks[i], track)
          /\ ~IsrcEqual(first_results.tracks[i], track)
          /\ IsrcEqual(first_results.tracks[j], track)
          /\ ~NameEqual(first_results.tracks[j], track)
          /\ found_track = first_results.tracks[j]

\* C10 as claimed: one resolution makes at most 3 search query calls and at
\* most 3 album track-listing calls.
C10_ThreeQueries ==
    /\ Cardinality(CallsOf(lookups, "search") \cup CallsOf(lookups, "album_search")) <= 3
    /\ Cardinality(CallsOf(lookups, "album_tracks")) <= 3

\* C10 amended: one resolution makes at most 4 search query calls (at most 3
\* for tracks and at most 1 for albums) and at most 3 album track-listing
\* calls.
C10_FourQueries ==
    /\ Cardinality(CallsOf(lookups, "search")) <= 3
    /\ Cardinality(CallsOf(lookups, "album_search")) <= 1
    /\ Cardinality(CallsOf(lookups, "album_tracks")) <= TopAlbums

\* C10 witness: a resolution that made all 4 queries and 3 listings.
C10_Witness ==
    /\ Cardinality(CallsOf(lookups, "search")) = 3
    /\ Cardinality(CallsOf(lookups, "album_search")) = 1
    /\ Cardinality(CallsOf(lookups, "album_tracks")) = TopAlbums

FunctionRunIdle ==
    /\ begun = 0
    /\ rows = 0
    /\ playlist = NoPlaylist
    /\ track_index = 0
    /\ added_tracks = {}
    /\ found_track = NoTrack
    /\ retry_count = 0
    /\ albums_left = 0
    /\ calls = <<>>
    /\ added_ok = {}
    /\ declined = FALSE
    /\ lookups = <<>>
    /\ first_results = NoOutcome
FunctionRunUnchanged ==
    UNCHANGED <<begun, rows, playlist, track_index, added_tracks, found_track,
                retry_count, albums_left, calls, added_ok, declined, lookups,
                first_results>>

\* ------------------------------------------------- get_unique_playlist_name
\* Highest version suffix among the names of the destination account.
MaxVersion == 4
\* A playlist name that differs from PlaylistP by case only.
PlaylistLowerP == <<"p">>
\* Names the destination account can hold: the desired names, their
\* versioned forms, and a near miss.
AccountNames ==
    {PlaylistP, PlaylistLowerP, Versioned(Versioned(PlaylistP, FirstVersion), FirstVersion)}
        \cup {Versioned(PlaylistP, v) : v \in FirstVersion..MaxVersion}
\* Names asked for: a plain one, and one that looks versioned itself.
DesiredNames == {PlaylistP, Versioned(PlaylistP, FirstVersion)}

\* Before the call: any account, nothing chosen yet.
InitNames ==
    /\ pc = "naming"
    /\ dest_names \in SUBSET AccountNames
    /\ unique_playlist_name = NoPlaylist
    /\ last_call = NoCall
    /\ track = NoRow
    /\ not_found = <<>>
    /\ ledger_exists = FALSE
    /\ ledger = <<>>
    /\ FunctionRunIdle

\* get_unique_playlist_name(user, desired_name) with user.playlists()
\* returning the account's playlists.
UniqueName ==
    /\ pc = "naming"
    /\ \E desired_name \in DesiredNames :
          /\ unique_playlist_name' = get_unique_playlist_name(dest_names, desired_name)
          /\ last_call' = Call("get_unique_playlist_name", desired_name)
    /\ pc' = "named"
    /\ UNCHANGED <<dest_names, track, not_found, ledger_exists, ledger>>
    /\ FunctionRunUnchanged

NextNames == UniqueName

SpecNames == InitNames /\ [][NextNames]_vars

\* C12: get_unique_playlist_name returns the desired name when no playlist
\* of the account has exactly that name; otherwise "<name> version N" for the
\* smallest N >= 2 whose versioned name is not taken.  The result is never a
\* name of the account, and the search ends within |account| + 1 steps.
C12_UniqueName ==
    pc = "named" =>
        LET desired_name == last_call.out
        IN  /\ unique_playlist_name \notin dest_names
            /\ desired_name \notin dest_names => unique_playlist_name = desired_name
            /\ desired_name \in dest_names =>
                  \E N \in FirstVersion..(Cardinality(dest_names) + FirstVersion) :
                      /\ unique_playlist_name = Versioned(desired_name, N)
                      /\ \A k \in FirstVersion..(N - 1) :
                            Versioned(desired_name, k) \in dest_names

\* C12 witness: the desired name and its version 2 are taken, version 3 is
\* free and version 4 is taken: the result is version 3.
C12_Witness ==
    /\ pc = "named"
    /\ last_call.out = PlaylistP
    /\ {PlaylistP, PlaylistLowerP, Versioned(PlaylistP, 2), Versioned(PlaylistP, 4)}
           \subseteq dest_names
    /\ Versioned(PlaylistP, 3) \notin dest_names
    /\ unique_playlist_name = Versioned(PlaylistP, 3)

\* The data rows this run wrote for the current playlist, as entries of
\* the returned list.
RowsOfPlaylist ==
    LET mine == SelectSeq(ledger, LAMBDA r : r.pl = begun)
    IN  [i \in 1..Len(mine) |-> [idx |-> mine[i].idx, reason |-> mine[i].reason]]
\* Data rows stand in the order of their playlists and, within a playlist,
\* of their tracks.
LedgerInSourceOrder ==
    \A i, j \in 1..Len(ledger) :
        (i < j /\ ledger[i] # Header) =>
            \/ ledger[i].pl < ledger[j].pl
            \/ ledger[i].pl = ledger[j].pl /\ ledger[i].idx < ledger[j].idx

IterationEnded == Continues /\ track # NoRow
\* The adds of the current track that returned.
AddsOk == {i \in CallsOf(calls, "add") : calls[i].out = "ok"}
\* The three outcomes of a track.
TrackAdded ==
    /\ Cardinality(AddsOk) = 1
    /\ RowsOfTrack = {}
    /\ Key(track) \in added_tracks
TrackLogged ==
    /\ AddsOk = {}
    /\ Cardinality(RowsOfTrack) = 1
TrackSkipped ==
    /\ AddsOk = {}
    /\ RowsOfTrack = {}
    /\ calls = <<>>
    /\ last_call = NoCall
    /\ Key(track) \in added_tracks
\* A call of the current track's iteration ended in an error the loop is to
\* absorb: a search or an add raised (the 412 apart, which leads to the
\* prompt), or the playlist could not be listed or found again.
CallFailed ==
    \/ last_call = Call("search", "raised")
    \/ last_call.op = "add" /\ last_call.out \notin {"ok", ErrAuthExpired}
    \/ last_call.op = "reauth" /\ last_call.out \in {"playlists_raised", "missing"}

\* C14: once the playlist was created, every track whose iteration has ended
\* (so every track, when create_tidal_playlist returns) has exactly one of
\* three outcomes: one add that returned and no ledger row; exactly one
\* ledger row and no add that returned; or neither, its key being in
\* added_tracks and no call made.  A failed call of an iteration is absorbed:
\* the track is logged and the loop goes on, and the run never crashes inside
\* the track loop.
C14_OneOutcomePerTrack ==
    /\ IterationEnded =>
          /\ TrackAdded \/ TrackLogged \/ TrackSkipped
          /\ ~(TrackAdded /\ TrackLogged)
          /\ ~(TrackAdded /\ TrackSkipped)
          /\ ~(TrackLogged /\ TrackSkipped)
    /\ CallFailed => IterationEnded /\ TrackLogged
    /\ pc = "crashed" => track = NoRow

\* C14 witness: create_tidal_playlist has returned after two tracks, the
\* first added, the second skipped for its key, nothing logged.
C14_Witness ==
    /\ pc = "main"
    /\ track # NoRow
    /\ track_index = 2
    /\ TrackSkipped
    /\ not_found = <<>>
    /\ Key(track) \in added_ok

\* C15 as claimed: after a granted prompt, a re-authentication that finds
\* the playlist by its unique name is followed by another add of the same
\* resolved candidate on the playlist found, with no search in between.
C15_GrantLeadsToAdd ==
    [][(pc = "reauth" /\ last_call' = Call("reauth", "found")) =>
           /\ pc' = "add"
           /\ found_track' = found_track
           /\ playlist' = unique_playlist_name
           /\ CallsOf(calls', "search") = {}]_vars

\* ------------------------------------------------------------- text runs
\* normalize_text and fuzzy_match_words on their own.
\* Most words in a generated text.
MaxTextWords == 2
\* Words the generated texts are made of: plain ones, one in upper case, and
\* ones the normaliser rewrites.
Vocabulary == {<<"a">>, <<"b">>, <<"c">>,
               <<"B">>, <<"r","e",".","m","i","x">>,
               <<"f","t",".">>, <<"(","x",")">>}
\* Texts of up to n words of the vocabulary, joined by single spaces.
GeneratedTexts(n) == {JoinWords(ws) : ws \in SeqsUpTo(Vocabulary, n)}
\* Longer titles: word sets of sizes 3, 4 and 10.
TextABC == <<"a"," ","b"," ","c">>
TextABCD == <<"a"," ","b"," ","c"," ","d">>
TextTen == <<"a"," ","b"," ","c"," ","d"," ","e"," ","f"," ","g"," ","h"," ","i"," ","j">>
TextTenSeven == <<"a"," ","b"," ","c"," ","d"," ","e"," ","f"," ","g"," ","x"," ","y"," ","z">>
TextTenSix == <<"a"," ","b"," ","c"," ","d"," ","e"," ","f"," ","w"," ","x"," ","y"," ","z">>
LongTexts == {TextABC, TextABCD, TextTen, TextTenSeven, TextTenSix}
\* Texts given to normalize_text, and as the second text to fuzzy_match_words.
Texts == GeneratedTexts(MaxTextWords) \cup LongTexts
\* Texts given as the first text to fuzzy_match_words: empty, empty once
\* normalised, with a repeated word in another order, and the longer titles.
TextBAA == <<"b"," ","a"," ","a">>
MatchTexts == {<<>>, <<"(","x",")">>, <<"a"," ","b">>, TextBAA} \cup LongTexts

InitText ==
    /\ pc = "text"
    /\ track \in [track_name : Texts, artist_names : {<<>>}, album_name : {<<>>},
                  isrc : {"None"}]
    /\ found_track \in [name : MatchTexts, isrc : {"NoAttr"}]
    /\ calls = <<>>
    /\ last_call = NoCall
    /\ dest_names = {}
    /\ unique_playlist_name = NoPlaylist
    /\ not_found = <<>>
    /\ ledger_exists = FALSE
    /\ ledger = <<>>
    /\ begun = 0
    /\ rows = 0
    /\ playlist = NoPlaylist
    /\ track_index = 0
    /\ added_tracks = {}
    /\ retry_count = 0
    /\ albums_left = 0
    /\ added_ok = {}
    /\ declined = FALSE
    /\ lookups = <<>>
    /\ first_results = NoOutcome

\* A call of a text function: `calls` records the function and its result.
TextCall(p, op, result) ==
    /\ pc' = p
    /\ calls' = Append(calls, Call(op, result))
    /\ last_call' = Call(op, result)
    /\ UNCHANGED <<dest_names, begun, rows, unique_playlist_name, playlist, track,
                   track_index, added_tracks, found_track, retry_count, albums_left,
                   not_found, ledger_exists, ledger, added_ok, declined, lookups,
                   first_results>>

\* normalize_text(text)
NormalizeOnce ==
    /\ pc = "text"
    /\ TextCall("normalized", "normalize_text", normalize_text(track.track_name))

\* normalize_text applied to its own result
NormalizeAgain ==
    /\ pc = "normalized"
    /\ TextCall("renormalized", "normalize_text", normalize_text(calls[1].out))

\* fuzzy_match_words(result_track.name, cleaned_track_name)
FuzzyMatch ==
    /\ pc = "text"
    /\ TextCall("matched", "fuzzy_match_words",
                fuzzy_match_words(found_track.name, track.track_name))

NextText ==
    \/ NormalizeOnce
    \/ NormalizeAgain
    \/ FuzzyMatch

SpecText == InitText /\ [][NextText]_vars

\* C16 as claimed: normalising a normalised text changes nothing.
C16_NormalizeIdempotent ==
    pc = "renormalized" => calls[2].out = calls[1].out

\* The set of the words of a normalised text.
TokensOf(text) ==
    {Words(normalize_text(text))[i] : i \in DOMAIN Words(normalize_text(text))}

\* C17: fuzzy_match_words(a, b) is true exactly when both token sets are
\* non-empty and 10 * |A \cap B| >= 7 * max(|A|, |B|); it is false when
\* either token set is empty.  The result is a function of the two token
\* sets, so neither the order of the words nor their repetition changes it.
C17_FuzzyMatchRule ==
    pc = "matched" =>
        LET A == TokensOf(found_track.name)
            B == TokensOf(track.track_name)
            larger == IF Cardinality(A) >= Cardinality(B)
                      THEN Cardinality(A) ELSE Cardinality(B)
            result == calls[1].out
        IN  /\ result \in BOOLEAN
            /\ result <=> (/\ A # {}
                           /\ B # {}
                           /\ 10 * Cardinality(A \cap B) >= 7 * larger)
            /\ (A = {} \/ B = {}) => ~result

\* C17 witness: two ten-word titles with seven words in common match, the
\* ratio being exactly 0.7.
C17_Witness ==
    /\ pc = "matched"
    /\ found_track.name = TextTen
    /\ track.track_name = TextTenSeven
    /\ calls[1].out = TRUE

\* C18: the write that finds the ledger file absent writes the header and
\* then its data row; every other write appends its one data row and no
\* header.  So the file, once there, has the header as its first row and
\* nowhere else.
C18_HeaderOnce ==
    /\ [][ledger' # ledger =>
             /\ ledger_exists'
             /\ IF ledger_exists
                THEN /\ Len(ledger') = Len(ledger) + 1
                     /\ SubSeq(ledger', 1, Len(ledger)) = ledger
                     /\ ledger'[Len(ledger')] # Header
                ELSE /\ ledger = <<>>
                     /\ Len(ledger') = 2
                     /\ ledger'[1] = Header
                     /\ ledger'[2] # Header]_vars
    /\ [](/\ ledger_exists <=> ledger # <<>>
          /\ ledger # <<>> =>
                /\ ledger[1] = Header
                /\ \A i \in 2..Len(ledger) : ledger[i] # Header)

\* C18 witness: two writes, for tracks of two playlists, have left the
\* header and two data rows.
C18_Witness ==
    /\ Len(ledger) = 3
    /\ ledger[1] = Header
    /\ ledger[2].pl = 1
    /\ ledger[3].pl = 2
    /\ ledger_exists

\* C19: when album.tracks() raises for one of the top 3 albums, the resolver
\* goes on to the next album if one is left and returns None otherwise; the
\* error does not leave the resolver (only a track search's error does).
C19_AlbumErrorSwallowed ==
    /\ [][(pc = "album_tracks" /\ last_call' = Call("album_tracks", "raised")) =>
             IF albums_left > 1
             THEN pc' = "album_tracks" /\ albums_left' = albums_left - 1
             ELSE pc' = "not_found"]_vars
    /\ [](pc = "raised" => last_call = Call("search", "raised"))

\* C19 witness: the listing of one album raised and the resolver returned a
\* match from a later album.
C19_Witness ==
    /\ pc = "found"
    /\ \E i \in 1..Len(lookups) :
          /\ lookups[i] = Call("album_tracks", "raised")
          /\ i < Len(lookups)
    /\ lookups[Len(lookups)] = Call("album_tracks", "ok")
    /\ found_track # NoTrack

\* --------------------------------------------------------- main's selection
\* main from the selection prompt on, with create_tidal_playlist as one
\* step from its call to its return.  In these runs last_call holds the
\* text typed at the prompt, begun counts the playlists started and calls
\* records create_tidal_playlist (line 554) and display_not_found_songs
\* (line 557) with the number of the playlist.
\* len(playlists): the playlists on display, numbered from 1.
NumPlaylists == 3
\* Most comma-separated parts in a typed selection.
MaxTokens == 2

\* s.split(ch)
RECURSIVE SplitOn(_, _)
SplitOn(s, ch) ==
    IF \E i \in 1..Len(s) : s[i] = ch
    THEN LET i == CHOOSE i \in 1..Len(s) : s[i] = ch /\ \A k \in 1..(i - 1) : s[k] # ch
         IN  <<SubSeq(s, 1, i - 1)>> \o SplitOn(SubSeq(s, i + 1, Len(s)), ch)
    ELSE <<s>>

\* int(s) raised ValueError
NotAnInt == 0 - 1
RECURSIVE DigitsValue(_)
DigitsValue(s) ==
    IF s = <<>> THEN 0
    ELSE 10 * DigitsValue(SubSeq(s, 1, Len(s) - 1))
            + (CHOOSE d \in 0..9 : DigitChars[d + 1] = s[Len(s)])
\* int(s.strip()) for a text of digits, spaces and other characters.
IntOf(s) ==
    LET t == Strip(s)
    IN  IF t # <<>> /\ \A i \in 1..Len(t) : t[i] \in Digits
        THEN DigitsValue(t) ELSE NotAnInt

\* The numbers one part of the input adds to `selected`.
ParsePart(part, max_num) ==
    LET p == Strip(part)
    IN  IF Contains(p, <<"-">>)
        THEN LET pieces == SplitOn(p, "-")
             IN  IF Len(pieces) # 2 THEN {}
                 ELSE LET start == IntOf(pieces[1])
                          end == IntOf(pieces[2])
                      IN  IF start = NotAnInt \/ end = NotAnInt THEN {}
                          ELSE IF /\ 1 <= start /\ start <= max_num
                                  /\ 1 <= end /\ end <= max_num
                                  /\ start <= end
                               THEN start..end
                               ELSE {}
        ELSE LET num == IntOf(p)
             IN  IF num # NotAnInt /\ 1 <= num /\ num <= max_num THEN {num} ELSE {}

parse_playlist_selection(user_input, max_num) ==
    LET parts == SplitOn(user_input, ",")
    IN  UNION {ParsePart(parts[i], max_num) : i \in 1..Len(parts)}

\* sorted(S)
RECURSIVE Sorted(_)
Sorted(S) ==
    IF S = {} THEN <<>>
    ELSE LET least == CHOOSE x \in S : \A y \in S : x <= y
         IN  <<least>> \o Sorted(S \ {least})

\* The selected numbers in the order the input names them, each once.
RECURSIVE TokenOrderFrom(_, _, _)
TokenOrderFrom(parts, max_num, seen) ==
    IF parts = <<>> THEN <<>>
    ELSE LET new == ParsePart(Head(parts), max_num) \ seen
         IN  Sorted(new) \o TokenOrderFrom(Tail(parts), max_num, seen \cup new)
\* The playlists taken in the order of the input's tokens.
selected_playlists_as_typed(user_input, max_num) ==
    TokenOrderFrom(SplitOn(user_input, ","), max_num, {})

\* selected_playlists = [playlists[i-1] for i in sorted(selected_indices)]
selected_playlists(user_input, max_num) ==
    Sorted(parse_playlist_selection(user_input, max_num))

\* Parts a user can type between commas: numbers, ranges, and parts that
\* are warned about and skipped.
NumberTokens == {Decimal(i) : i \in 1..NumPlaylists}
RangeTokens ==
    {Decimal(a) \o <<"-">> \o Decimal(b) : a \in 1..NumPlaylists, b \in 2..NumPlaylists}
OddTokens == {<<>>, <<"x">>, <<" ","1"," ">>, <<"0">>, Decimal(NumPlaylists + 1),
              <<"1","-","2","-","3">>, <<"1","-","x">>, <<"-","1">>}
TokenTexts == NumberTokens \cup RangeTokens \cup OddTokens
RECURSIVE JoinWith(_, _)
JoinWith(parts, ch) ==
    IF parts = <<>> THEN <<>>
    ELSE IF Len(parts) = 1 THEN parts[1]
    ELSE parts[1] \o <<ch>> \o JoinWith(Tail(parts), ch)
\* What the user can type at the selection prompt.
UserInputs == {JoinWith(parts, ",") : parts \in SeqsUpTo(TokenTexts, MaxTokens)}

InitMain ==
    /\ pc = "select"
    /\ begun = 0
    /\ calls = <<>>
    /\ last_call = NoCall
    /\ track = NoRow
    /\ dest_names = {}
    /\ unique_playlist_name = NoPlaylist
    /\ not_found = <<>>
    /\ ledger_exists = FALSE
    /\ ledger = <<>>
    /\ rows = 0
    /\ playlist = NoPlaylist
    /\ track_index = 0
    /\ added_tracks = {}
    /\ found_track = NoTrack
    /\ retry_count = 0
    /\ albums_left = 0
    /\ added_ok = {}
    /\ declined = FALSE
    /\ lookups = <<>>
    /\ first_results = NoOutcome

MainUnchanged ==
    UNCHANGED <<dest_names, rows, unique_playlist_name, playlist, track, track_index,
                added_tracks, found_track, retry_count, albums_left, not_found,
                ledger_exists, ledger, added_ok, declined, lookups, first_results>>

\* The selection prompt: an empty line, or one without a valid number, is
\* asked again and leaves nothing behind.
Select ==
    /\ pc = "select"
    /\ \E typed \in UserInputs :
          LET user_input == Strip(typed)
          IN  IF \/ user_input = <<>>
                 \/ parse_playlist_selection(user_input, NumPlaylists) = {}
              THEN UNCHANGED <<pc, last_call>>
              ELSE /\ last_call' = Call("input", user_input)
                   /\ pc' = "main"
    /\ UNCHANGED <<begun, calls>>
    /\ MainUnchanged

\* The next playlist of selected_playlists goes to create_tidal_playlist.
BeginSelected ==
    /\ pc = "main"
    /\ begun < Len(selected_playlists(last_call.out, NumPlaylists))
    /\ begun' = begun + 1
    /\ calls' = Append(calls, Call("create_tidal_playlist",
                       selected_playlists(last_call.out, NumPlaylists)[begun + 1]))
    /\ pc' = "playlist"
    /\ UNCHANGED last_call
    /\ MainUnchanged

\* create_tidal_playlist returns and main reports, or the process ends
\* inside it (a declined prompt, a failed authentication, a crash).
EndSelected ==
    /\ pc = "playlist"
    /\ \/ /\ pc' = "main"
          /\ calls' = Append(calls, Call("display_not_found_songs", calls[Len(calls)].out))
       \/ /\ pc' = "ended"
          /\ UNCHANGED calls
    /\ UNCHANGED <<begun, last_call>>
    /\ MainUnchanged

\* "Playlist migration complete!"
FinishSelected ==
    /\ pc = "main"
    /\ begun = Len(selected_playlists(last_call.out, NumPlaylists))
    /\ pc' = "done"
    /\ UNCHANGED <<begun, calls, last_call>>
    /\ MainUnchanged

NextMain ==
    \/ Select
    \/ BeginSelected
    \/ EndSelected
    \/ FinishSelected

SpecMain == InitMain /\ [][NextMain]_vars

\* The playlists given to create_tidal_playlist so far, in order.
Started ==
    LET at == SelectSeq(calls, LAMBDA c : c.op = "create_tidal_playlist")
    IN  [k \in 1..Len(at) |-> at[k].out]
\* One playlist at a time: a playlist's report follows its reconciliation,
\* and the next reconciliation follows the report.
OneAfterAnother ==
    \A i \in 1..Len(calls) :
        IF i % 2 = 1 THEN calls[i].op = "create_tidal_playlist"
        ELSE calls[i] = Call("display_not_found_songs", calls[i - 1].out)

\* C20 as claimed: the playlists are reconciled one after another in the
\* order in which the tokens of the selection input name them.
C20_TokenOrder ==
    pc # "select" =>
        /\ OneAfterAnother
        /\ Started = SubSeq(selected_playlists_as_typed(last_call.out, NumPlaylists),
                            1, Len(Started))

\* C20 amended: the playlists are reconciled one after another in ascending
\* order of their numbers in the list on display, each selected playlist
\* once, whatever the order of the tokens.
C20_AscendingOrder ==
    pc # "select" =>
        /\ OneAfterAnother
        /\ \A k \in 1..Len(Started) :
              /\ Started[k] \in parse_playlist_selection(last_call.out, NumPlaylists)
              /\ \A j \in 1..(k - 1) : Started[j] < Started[k]
              /\ \A n \in parse_playlist_selection(last_call.out, NumPlaylists) :
                    n < Started[k] => \E j \in 1..(k - 1) : Started[j] = n
        /\ pc = "done" =>
              Len(Started) = Cardinality(parse_playlist_selection(last_call.out, NumPlaylists))

\* C20 witness: the user typed "3,1"; playlist 1 was reconciled and reported,
\* then playlist 3.
C20_Witness ==
    /\ pc = "done"
    /\ last_call = Call("input", <<"3", ",", "1">>)
    /\ calls = << Call("create_tidal_playlist", 1), Call("display_not_found_songs", 1),
                  Call("create_tidal_playlist", 3), Call("display_not_found_songs", 3) >>

\* C21 as claimed: when the add fails with the 412 signature on the first
\* attempt and again after a granted re-authentication, the retry loop ends,
\* the track gets exactly one ledger entry with the "error after retries"
\* reason carrying the add error, and the run goes on with the next track.
C21_SecondFailureLogged ==
    (/\ Len(calls) >= 4
     /\ calls[1] = Call("add", ErrAuthExpired)
     /\ calls[2] = Call("input", "y")
     /\ calls[3] = Call("reauth", "found")
     /\ calls[4] = Call("add", ErrAuthExpired)) =>
        /\ Continues
        /\ LoggedOnceAs(ErrorAfterRetries(ErrAuthExpired))

\* C22 as claimed: playlist.add is only ever called on a playlist handle
\* that is not None, also for the tracks that follow one whose playlist could
\* not be found again after a re-authentication.
C22_AddOnValidHandle ==
    /\ pc = "add" => playlist # NoPlaylist
    /\ last_call.op = "add" => last_call.out # ErrNoneAdd

====
